---- MODULE Spec2Model ----
(***************************************************************************)
(* The BAF preprocessing pipeline of xcltk (preprocess/baf.py): main() and *)
(* run_baf_preprocess() as a state machine over a filesystem.              *)
(*                                                                         *)
(* The orchestrator's own statements are translated from baf.py.  The      *)
(* stages it calls (pileup, vcf_add_genotype, vcf_split_chrom, vcf_index,  *)
(* ref_phasing, vcf_merge) and the helpers assert_e / assert_n live in     *)
(* other modules of the package; they are modelled at their interface:     *)
(* each call either raises, or returns having written its output, or       *)
(* returns having written nothing (a silent failure).                      *)
(*                                                                         *)
(* Paths are strings, built with the same concatenations as the code.      *)
(* barcode_fn, cell_tag, umi_tag and mode are handed through to pileup     *)
(* unchanged and decide no branch of the orchestrator; they are left out.  *)
(***************************************************************************)
EXTENDS Integers, Sequences, FiniteSets, TLC

VARIABLES
    pc,               \* position of the process in main / run_baf_preprocess
    argv,             \* the command line, as parsed by getopt
    label,            \* --label, None when unset
    sam_fn,           \* --sam, None when unset
    sam_list_fn,      \* --samlist, None when unset
    ncores,           \* --ncores
    fs,               \* the set of paths that exist
    written,          \* the paths created or written during this run
    res,              \* the triples returned by vcf_split_chrom
    k,                \* next index of res the loop of lines 215-219 looks at
    valid_chroms,
    target_vcf_list,
    ref_vcf_list,
    out_prefix_list,
    phased_vcf_list,
    task,             \* state of each phasing invocation inside ref_phasing
    calls,            \* the stage invocations made so far, in order
    failed_at,        \* the step at which an exception was raised, or None
    exit_status       \* << >> while running, <<status>> once the process exited

vars == <<pc, argv, label, sam_fn, sam_list_fn, ncores, fs, written, res, k,
          valid_chroms, target_vcf_list, ref_vcf_list, out_prefix_list,
          phased_vcf_list, task, calls, failed_at, exit_status>>

-----------------------------------------------------------------------------
(* Bounds of the model *)

\* at most this many of the required inputs (4 paths + 44 panel files) are absent
MaxMissing == 1
\* at most this many chromosomes carry variants in the genotype VCF
MaxRetained == 2
\* at most this many per-chromosome phased VCFs are left over by an earlier run
MaxStale == 1
\* the variant count of the chromosomes that have variants is 1..MaxVariants
MaxVariants == 1
\* the value given to --ncores when it is given
MaxCores == 2
\* the candidate SNPs, of this run and of an earlier one, lie on the
\* chromosomes chr1..chrMaxDataChrom
MaxDataChrom == 5

(* Program constants *)

NumChroms == 22       \* range(1, 23)
N_CORES == 1

None == "<None>"

RECURSIVE SubsetsUpTo(_, _)
SubsetsUpTo(S, n) ==
    IF n = 0 THEN {{}}
    ELSE LET P == SubsetsUpTo(S, n - 1) IN P \cup {T \cup {x} : T \in P, x \in S}

Range(s) == {s[i] : i \in 1..Len(s)}

-----------------------------------------------------------------------------
(* Names of files and directories *)

\* os.path.join(a, b) for a relative b
Join(a, b) == a \o "/" \o b

\* the configuration of a run: every run is given these paths
out_dir == "out"
snp_vcf_fn == "snp.vcf.gz"
gmap_fn == "genetic_map_hg38_withX.txt.gz"
eagle_fn == "eagle"
panel_dir == "panel"

Chroms == 1..NumChroms

\* the chromosomes that may carry variants
DataChroms == {i \in Chroms : i <= MaxDataChrom}

\* "chr" + str(i)
ChromName(i) == "chr" \o ToString(i)

\* the chrom_list handed to vcf_split_chrom
chrom_list == [i \in Chroms |-> ChromName(i)]

\* os.path.join(panel_dir, "chr%d.genotypes.bcf" % chrom) and its index
PanelBcf(i) == Join(panel_dir, "chr" \o ToString(i) \o ".genotypes.bcf")
PanelCsi(i) == Join(panel_dir, "chr" \o ToString(i) \o ".genotypes.bcf.csi")

PanelFiles == {PanelBcf(i) : i \in Chroms} \cup {PanelCsi(i) : i \in Chroms}

pileup_dir == Join(out_dir, "pileup")
\* as pileup_script, with the script put into pileup_dir
pileup_script_InPileupDir == Join(pileup_dir, "run_pileup.sh")

pileup_script == Join(out_dir, "run_pileup.sh")
pileup_log_fn == Join(out_dir, "pileup.log")
pileup_vcf_fn == Join(pileup_dir, "cellSNP.base.vcf.gz")

phasing_dir == Join(out_dir, "phasing")
phasing_script == Join(out_dir, "run_phasing.sh")
phasing_log_fn == Join(out_dir, "phasing.log")

genotype_vcf_fn(l) == Join(out_dir, l \o ".genotype.vcf.gz")

\* os.path.join(panel_dir, "%s.genotypes.bcf" % chrom)
RefVcf(chrom) == Join(panel_dir, chrom \o ".genotypes.bcf")

\* as OutPrefix, with the chromosome left out of the name
OutPrefix_NoChrom(l, chrom) == Join(phasing_dir, l \o ".phased")

\* as OutPrefix, with the label left out of the name
OutPrefix_NoLabel(l, chrom) == Join(phasing_dir, chrom \o ".phased")

\* os.path.join(phasing_dir, "%s_%s.phased" % (label, chrom))
OutPrefix(l, chrom) == Join(phasing_dir, l \o "_" \o chrom \o ".phased")

\* "%s.vcf.gz" % prefix
PhasedVcf(prefix) == prefix \o ".vcf.gz"

phased_vcf_fn(l) == Join(out_dir, l \o ".phased.vcf.gz")

\* the per-chromosome VCF vcf_split_chrom writes for a chromosome
SplitVcf(l, chrom) == Join(phasing_dir, l \o "_" \o chrom \o ".vcf.gz")

\* the index vcf_index writes beside a VCF
IndexOf(fn) == fn \o ".csi"

-----------------------------------------------------------------------------
(* Inputs *)

\* labels a run may be given; the last one holds a path separator
SimpleLabels == {"S", "S_chr1"}
Labels == SimpleLabels \cup {"phasing/S_chr1"}

\* the label of the earlier run whose files the output root may still hold
PrevLabel == "S"

\* the command lines: the options present and the value of --label
ArgvChoices ==
    {[opts |-> O, label |-> None] :
        O \in {{}, {"--version"}, {"--help"}, {"--bogus"}, {"--sam"}}}
    \cup {[opts |-> {"--label"} \cup O, label |-> PrevLabel] :
            O \in SUBSET {"--sam", "--samlist"}}
    \cup {[opts |-> {"--label", "--sam"}, label |-> l] : l \in Labels}
    \cup {[opts |-> {"--label", "--sam", "--ncores"}, label |-> PrevLabel]}

RequiredInputs == {snp_vcf_fn, gmap_fn, eagle_fn, panel_dir} \cup PanelFiles

\* the inputs present when all but the paths of M are: a panel file is absent
\* when the panel directory is
InputsWithout(M) ==
    IF panel_dir \in M THEN {snp_vcf_fn, gmap_fn, eagle_fn} \ M
    ELSE RequiredInputs \ M

\* what a complete earlier run with PrevLabel that retained the chromosomes
\* of S left in the output root
PrevRunFiles(S) ==
    {out_dir, pileup_dir, pileup_script, pileup_log_fn, pileup_vcf_fn,
     phasing_dir, phasing_script, phasing_log_fn,
     genotype_vcf_fn(PrevLabel), phased_vcf_fn(PrevLabel)}
    \cup {SplitVcf(PrevLabel, ChromName(i)) : i \in S}
    \cup {IndexOf(SplitVcf(PrevLabel, ChromName(i))) : i \in S}
    \cup {PhasedVcf(OutPrefix(PrevLabel, ChromName(i))) : i \in S}

\* the output root before the run: absent, empty, or left by an earlier run
OutRootChoices ==
    {{}, {out_dir}} \cup {PrevRunFiles(S) : S \in SubsetsUpTo(DataChroms, MaxStale)}

Init ==
    /\ pc = "main"
    /\ argv \in ArgvChoices
    /\ label = None
    /\ sam_fn = None
    /\ sam_list_fn = None
    /\ ncores = N_CORES
    /\ \E M \in SubsetsUpTo(RequiredInputs, MaxMissing), L \in OutRootChoices :
          fs = InputsWithout(M) \cup L
    /\ written = {}
    /\ res = <<>>
    /\ k = 1
    /\ valid_chroms = <<>>
    /\ target_vcf_list = <<>>
    /\ ref_vcf_list = <<>>
    /\ out_prefix_list = <<>>
    /\ phased_vcf_list = <<>>
    /\ task = <<>>
    /\ calls = <<>>
    /\ failed_at = None
    /\ exit_status = <<>>

-----------------------------------------------------------------------------
(* Helpers of the package *)

\* assert_e(path): passes when the path exists
assert_e(path, files) == path \in files

\* assert_n(var): passes when the variable is set
assert_n(x) == x # None

\* as Raise, with the exception caught and the step left where it was
Raise_Swallowed(step) ==
    /\ failed_at' = step
    /\ UNCHANGED <<pc, exit_status>>

\* an uncaught exception ends the process with status 1
Raise(step) ==
    /\ pc' = "exited"
    /\ failed_at' = step
    /\ exit_status' = <<1>>

\* sys.exit(status)
SysExit(status) ==
    /\ pc' = "exited"
    /\ failed_at' = None
    /\ exit_status' = <<status>>

Call(fn, args) == calls' = Append(calls, [fn |-> fn, args |-> args])

\* os.mkdir(d) unless os.path.exists(d)
MkdirIfAbsent(d, files) == files \cup {d}
Created(d, files) == IF d \in files THEN {} ELSE {d}

UNCH_lists ==
    UNCHANGED <<res, k, valid_chroms, target_vcf_list, ref_vcf_list,
                out_prefix_list, phased_vcf_list, task>>
UNCH_args == UNCHANGED <<argv, label, sam_fn, sam_list_fn, ncores>>

-----------------------------------------------------------------------------
(* main(): lines 50-117 and the entry point, line 271 *)

\* the long options getopt accepts, and those the loop of lines 80-102 handles
longopts ==
    {"--label", "--sam", "--samlist", "--barcode", "--snpvcf", "--outdir",
     "--gmap", "--eagle", "--paneldir", "--version", "--help", "--celltag",
     "--umitag", "--ncores", "--smartseq", "--bulk"}
handled == longopts

\* the entry point calls main(sys.argv) and drops what it returns: a run that
\* raises nothing and calls no sys.exit ends with status 0
EntryPointStatus(ret) == 0

Main ==
    /\ pc = "main"
    /\ UNCHANGED <<argv, fs, written, calls>>
    /\ UNCH_lists
    /\ IF argv.opts = {}
       THEN \* len(argv) < 2: usage(); sys.exit(1)
            SysExit(1) /\ UNCHANGED <<label, sam_fn, sam_list_fn, ncores>>
       ELSE IF ~(argv.opts \subseteq longopts)
       THEN \* getopt.getopt raises GetoptError
            Raise("getopt") /\ UNCHANGED <<label, sam_fn, sam_list_fn, ncores>>
       ELSE IF \E op \in argv.opts : op \notin handled
       THEN \* error("invalid option"); return(-1)
            /\ pc' = "exited"
            /\ failed_at' = None
            /\ exit_status' = <<EntryPointStatus(-1)>>
            /\ UNCHANGED <<label, sam_fn, sam_list_fn, ncores>>
       ELSE IF "--version" \in argv.opts \/ "--help" \in argv.opts
       THEN SysExit(1) /\ UNCHANGED <<label, sam_fn, sam_list_fn, ncores>>
       ELSE /\ label' = IF "--label" \in argv.opts THEN argv.label ELSE None
            /\ sam_fn' = IF "--sam" \in argv.opts THEN "a.bam" ELSE None
            /\ sam_list_fn' = IF "--samlist" \in argv.opts THEN "bam.list" ELSE None
            /\ ncores' = IF "--ncores" \in argv.opts THEN MaxCores ELSE N_CORES
            /\ pc' = "check_args"
            /\ UNCHANGED <<failed_at, exit_status>>

-----------------------------------------------------------------------------
(* run_baf_preprocess(): check args, lines 135-148 *)

\* as ToolsPresent, with the check of the phasing binary left out
ToolsPresent_NoEagle(files) ==
    /\ assert_e(gmap_fn, files)
    /\ assert_e(panel_dir, files)

\* assert_e(gmap_fn); assert_e(eagle_fn); assert_e(panel_dir)
ToolsPresent(files) ==
    /\ assert_e(gmap_fn, files)
    /\ assert_e(eagle_fn, files)
    /\ assert_e(panel_dir, files)

\* as PanelComplete, with the check of the index files left out
PanelComplete_NoCsi(files) ==
    \A chrom \in Chroms : assert_e(PanelBcf(chrom), files)

\* the loop of lines 144-146
PanelComplete(files) ==
    \A chrom \in Chroms :
        assert_e(PanelBcf(chrom), files) /\ assert_e(PanelCsi(chrom), files)

CheckArgs ==
    /\ pc = "check_args"
    /\ UNCHANGED calls
    /\ UNCH_args
    /\ UNCH_lists
    /\ IF ~assert_n(label) \/ ~assert_e(snp_vcf_fn, fs)
       THEN Raise("check_args") /\ UNCHANGED <<fs, written>>
       ELSE /\ fs' = MkdirIfAbsent(out_dir, fs)
            /\ written' = written \cup Created(out_dir, fs)
            /\ IF ToolsPresent(fs) /\ PanelComplete(fs)
               THEN pc' = "pileup" /\ UNCHANGED <<failed_at, exit_status>>
               ELSE Raise("check_args")

-----------------------------------------------------------------------------
(* pileup, lines 156-176 *)

\* pileup() takes one and only one of sam_fn and sam_list_fn
SamConfigOk == (sam_fn = None) # (sam_list_fn = None)

\* what pileup writes when it succeeds, and when it fails silently
PileupOutputs == {pileup_vcf_fn, pileup_script, pileup_log_fn}
PileupTraces == {pileup_script, pileup_log_fn}

\* as MakePileupDir, with the os.mkdir left out
MakePileupDir_Skip(files) == files

\* if not os.path.exists(pileup_dir): os.mkdir(pileup_dir)
MakePileupDir(files) == MkdirIfAbsent(pileup_dir, files)

RunPileup ==
    /\ pc = "pileup"
    /\ UNCH_args
    /\ UNCH_lists
    /\ Call("pileup", <<<<pileup_dir>>, <<pileup_script>>, <<pileup_log_fn>>>>)
    /\ LET fs1 == MakePileupDir(fs)
           w1 == written \cup (fs1 \ fs)
       IN  \/ /\ fs' = fs1
              /\ written' = w1
              /\ Raise("pileup")
           \/ /\ SamConfigOk
              /\ \E outs \in {PileupOutputs, PileupTraces} :
                    /\ fs' = fs1 \cup outs
                    /\ written' = w1 \cup outs
              /\ pc' = "pileup_check"
              /\ UNCHANGED <<failed_at, exit_status>>

\* as PileupVcfPresent, with the assertion left out
PileupVcfPresent_Unchecked(files) == TRUE

\* assert_e(pileup_vcf_fn)
PileupVcfPresent(files) == assert_e(pileup_vcf_fn, files)

\* assert_e(pileup_vcf_fn), then lines 183-187
CheckPileup ==
    /\ pc = "pileup_check"
    /\ UNCHANGED calls
    /\ UNCH_args
    /\ UNCH_lists
    /\ IF PileupVcfPresent(fs)
       THEN /\ fs' = MkdirIfAbsent(phasing_dir, fs)
            /\ written' = written \cup Created(phasing_dir, fs)
            /\ pc' = "add_genotype"
            /\ UNCHANGED <<failed_at, exit_status>>
       ELSE Raise("pileup_check") /\ UNCHANGED <<fs, written>>

-----------------------------------------------------------------------------
(* add genotypes, lines 192-200 *)

AddGenotype ==
    /\ pc = "add_genotype"
    /\ UNCH_args
    /\ UNCH_lists
    /\ Call("vcf_add_genotype", <<<<pileup_vcf_fn>>, <<genotype_vcf_fn(label)>>>>)
    /\ \/ Raise("vcf_add_genotype") /\ UNCHANGED <<fs, written>>
       \/ /\ \E outs \in {{genotype_vcf_fn(label)}, {}} :
                /\ fs' = fs \cup outs
                /\ written' = written \cup outs
          /\ pc' = "split"
          /\ UNCHANGED <<failed_at, exit_status>>

-----------------------------------------------------------------------------
(* split VCF by chromosomes, lines 205-221 *)

\* the triples vcf_split_chrom returns, one per chromosome of chrom_list, when
\* the chromosomes of R have n variants each and the others have none
SplitResult(R, n) ==
    [i \in Chroms |->
        <<chrom_list[i], IF i \in R THEN n ELSE 0, SplitVcf(label, chrom_list[i])>>]

SplitChrom ==
    /\ pc = "split"
    /\ UNCH_args
    /\ UNCHANGED <<k, valid_chroms, target_vcf_list, ref_vcf_list,
                   out_prefix_list, phased_vcf_list, task>>
    /\ Call("vcf_split_chrom", <<<<genotype_vcf_fn(label)>>, <<phasing_dir>>>>)
    /\ \/ Raise("vcf_split_chrom") /\ UNCHANGED <<fs, written, res>>
       \/ /\ genotype_vcf_fn(label) \in fs
          /\ \E R \in SubsetsUpTo(DataChroms, MaxRetained) :
             \E n \in 1..MaxVariants :
                LET outs == {SplitVcf(label, chrom_list[i]) : i \in R}
                IN  /\ res' = SplitResult(R, n)
                    /\ fs' = fs \cup outs
                    /\ written' = written \cup outs
          /\ pc' = "split_loop"
          /\ UNCHANGED <<failed_at, exit_status>>

\* as Retained, with >= for >
Retained_AnyCount(n_variants) == n_variants >= 0

\* if n_variants > 0
Retained(n_variants) == n_variants > 0

\* the first entry of res at or after index j the loop body acts on, 0 if none
NextRetained(j) ==
    IF \E i \in j..Len(res) : Retained(res[i][2])
    THEN CHOOSE i \in j..Len(res) :
            /\ Retained(res[i][2])
            /\ \A m \in j..(i - 1) : ~Retained(res[m][2])
    ELSE 0

\* as IndexCalls, with the call left out
IndexCalls_None(vcf_fn) == <<>>

\* vcf_index(vcf_fn)
IndexCalls(vcf_fn) == <<[fn |-> "vcf_index", args |-> <<<<vcf_fn>>>>]>>

\* one pass of the loop body for the next chromosome with variants; the
\* entries without variants before it are passed over
IndexStep ==
    /\ pc = "split_loop"
    /\ NextRetained(k) # 0
    /\ UNCH_args
    /\ UNCHANGED <<res, ref_vcf_list, out_prefix_list, phased_vcf_list, task>>
    /\ LET i == NextRetained(k)
           chrom == res[i][1]
           vcf_fn == res[i][3]
       IN  /\ valid_chroms' = Append(valid_chroms, chrom)
           /\ target_vcf_list' = Append(target_vcf_list, vcf_fn)
           /\ calls' = calls \o IndexCalls(vcf_fn)
           /\ \/ Raise("vcf_index") /\ UNCHANGED <<fs, written, k>>
              \/ /\ fs' = fs \cup {IndexOf(vcf_fn)}
                 /\ written' = written \cup {IndexOf(vcf_fn)}
                 /\ k' = i + 1
                 /\ UNCHANGED <<pc, failed_at, exit_status>>

-----------------------------------------------------------------------------
(* reference phasing, lines 227-242 *)

\* as RefVcfList, with the chromosomes taken in reverse order
RefVcfList_Reversed(chroms) ==
    [i \in 1..Len(chroms) |-> RefVcf(chroms[Len(chroms) + 1 - i])]

\* [os.path.join(panel_dir, "%s.genotypes.bcf" % chrom) for chrom in valid_chroms]
RefVcfList(chroms) == [i \in 1..Len(chroms) |-> RefVcf(chroms[i])]
OutPrefixList(l, chroms) == [i \in 1..Len(chroms) |-> OutPrefix(l, chroms[i])]

\* as CallRefPhasing, going on to the merge step without waiting for the call
CallRefPhasing_NoWait ==
    /\ pc = "split_loop"
    /\ NextRetained(k) = 0
    /\ UNCH_args
    /\ UNCHANGED <<fs, written, res, k, valid_chroms, target_vcf_list,
                   phased_vcf_list, failed_at, exit_status>>
    /\ ref_vcf_list' = RefVcfList(valid_chroms)
    /\ out_prefix_list' = OutPrefixList(label, valid_chroms)
    /\ Call("ref_phasing", <<target_vcf_list, ref_vcf_list', out_prefix_list',
                             <<phasing_script, phasing_log_fn>>>>)
    /\ task' = [i \in 1..Len(target_vcf_list) |-> "pending"]
    /\ pc' = "merge_check"

\* the loop is over: build the lists and call ref_phasing
CallRefPhasing ==
    /\ pc = "split_loop"
    /\ NextRetained(k) = 0
    /\ UNCH_args
    /\ UNCHANGED <<fs, written, res, k, valid_chroms, target_vcf_list,
                   phased_vcf_list, failed_at, exit_status>>
    /\ ref_vcf_list' = RefVcfList(valid_chroms)
    /\ out_prefix_list' = OutPrefixList(label, valid_chroms)
    /\ Call("ref_phasing", <<target_vcf_list, ref_vcf_list', out_prefix_list',
                             <<phasing_script, phasing_log_fn>>>>)
    /\ task' = [i \in 1..Len(target_vcf_list) |-> "pending"]
    /\ pc' = "phasing"

Running == {i \in 1..Len(task) : task[i] = "running"}

\* ref_phasing starts the next invocation when a worker is free
PhasingStart ==
    /\ pc = "phasing"
    /\ Cardinality(Running) < ncores
    /\ \E i \in 1..Len(task) :
          /\ task[i] = "pending"
          /\ \A j \in 1..(i - 1) : task[j] # "pending"
          /\ task' = [task EXCEPT ![i] = "running"]
    /\ UNCH_args
    /\ UNCHANGED <<pc, fs, written, res, k, valid_chroms, target_vcf_list,
                   ref_vcf_list, out_prefix_list, phased_vcf_list, calls,
                   failed_at, exit_status>>

\* an invocation ends: it wrote its phased VCF, or it failed and wrote nothing
PhasingFinish ==
    /\ pc = "phasing"
    /\ \E i \in Running :
          /\ task' = [task EXCEPT ![i] = "done"]
          /\ \E outs \in {{PhasedVcf(out_prefix_list[i])}, {}} :
                /\ fs' = fs \cup outs
                /\ written' = written \cup outs
    /\ UNCH_args
    /\ UNCHANGED <<pc, res, k, valid_chroms, target_vcf_list, ref_vcf_list,
                   out_prefix_list, phased_vcf_list, calls, failed_at, exit_status>>

\* ref_phasing returns once every invocation has ended
RefPhasingReturn ==
    /\ pc = "phasing"
    /\ \A i \in 1..Len(task) : task[i] = "done"
    /\ UNCH_args
    /\ UNCH_lists
    /\ UNCHANGED <<fs, written, calls>>
    /\ \/ Raise("ref_phasing")
       \/ pc' = "merge_check" /\ UNCHANGED <<failed_at, exit_status>>

-----------------------------------------------------------------------------
(* merge phased VCFs, lines 249-256 *)

\* as PhasedList, with the last prefix left out
PhasedList_DropLast(prefixes) ==
    [i \in 1..(Len(prefixes) - 1) |-> PhasedVcf(prefixes[i])]

\* ["%s.vcf.gz" % prefix for prefix in out_prefix_list]
PhasedList(prefixes) == [i \in 1..Len(prefixes) |-> PhasedVcf(prefixes[i])]

\* as AllExist, failing on an empty list
AllExist_NonEmpty(list, files) ==
    /\ Len(list) > 0
    /\ \A i \in 1..Len(list) : assert_e(list[i], files)

\* as AllExist, looking at the first file only
AllExist_FirstOnly(list, files) == Len(list) > 0 => assert_e(list[1], files)

\* for fn in phased_vcf_list: assert_e(fn)
AllExist(list, files) == \A i \in 1..Len(list) : assert_e(list[i], files)

MergeCheck ==
    /\ pc = "merge_check"
    /\ UNCH_args
    /\ UNCHANGED <<fs, written, res, k, valid_chroms, target_vcf_list,
                   ref_vcf_list, out_prefix_list, task, calls>>
    /\ phased_vcf_list' = PhasedList(out_prefix_list)
    /\ IF AllExist(phased_vcf_list', fs)
       THEN pc' = "merge" /\ UNCHANGED <<failed_at, exit_status>>
       ELSE Raise("merge_check")

Merge ==
    /\ pc = "merge"
    /\ UNCH_args
    /\ UNCH_lists
    /\ Call("vcf_merge", <<phased_vcf_list, <<phased_vcf_fn(label)>>>>)
    /\ \/ Raise("vcf_merge") /\ UNCHANGED <<fs, written>>
       \/ /\ \E outs \in {{phased_vcf_fn(label)}, {}} :
                /\ fs' = fs \cup outs
                /\ written' = written \cup outs
          /\ pc' = "returned"
          /\ UNCHANGED <<failed_at, exit_status>>

\* run_baf_preprocess returns None, main logs "All Done!" and returns it, and
\* the entry point ends the process
Return ==
    /\ pc = "returned"
    /\ UNCH_args
    /\ UNCH_lists
    /\ UNCHANGED <<fs, written, calls, failed_at>>
    /\ pc' = "exited"
    /\ exit_status' = <<EntryPointStatus(None)>>

-----------------------------------------------------------------------------

Next ==
    \/ Main
    \/ CheckArgs
    \/ RunPileup
    \/ CheckPileup
    \/ AddGenotype
    \/ SplitChrom
    \/ IndexStep
    \/ CallRefPhasing
    \/ PhasingStart
    \/ PhasingFinish
    \/ RefPhasingReturn
    \/ MergeCheck
    \/ Merge
    \/ Return

Spec == Init /\ [][Next]_vars

-----------------------------------------------------------------------------
(* Properties *)

CallsOf(f) == {i \in 1..Len(calls) : calls[i].fn = f}
Invoked(f) == CallsOf(f) # {}

\* the indices of res of the chromosomes reported with variants, with none
HasVariants == {i \in 1..Len(res) : res[i][2] > 0}
NoVariants == {i \in 1..Len(res) : res[i][2] = 0}

\* the paths of each chromosome, and of each label and chromosome, tabulated
RefVcfOf == [c \in Range(chrom_list) |-> RefVcf(c)]
OutPrefixOf == [l \in Labels |-> [c \in Range(chrom_list) |-> OutPrefix(l, c)]]
PhasedVcfOf ==
    [l \in Labels |-> [c \in Range(chrom_list) |-> PhasedVcf(OutPrefix(l, c))]]

\* the phased VCF of the chromosome of entry i of res
PhasedOf(i) == PhasedVcfOf[label][res[i][1]]
ExpectedPhased == {PhasedOf(i) : i \in HasVariants}

\* the existence check of the merge step has been passed
MergeCheckPassed ==
    \/ pc \in {"merge", "returned"}
    \/ pc = "exited" /\ (failed_at = "vcf_merge" \/ exit_status = <<0>>)
\* the existence check of the merge step has run
MergeCheckRan == MergeCheckPassed \/ failed_at = "merge_check"

\* C1: vcf_merge is invoked only if every expected phased file, one per
\* retained chromosome, exists at the existence check; if one is absent the
\* run aborts at the check and vcf_merge is never invoked
C1_MergeOnlyIfAllPhasedExist ==
    /\ Invoked("vcf_merge") => ExpectedPhased \subseteq fs
    /\ MergeCheckPassed => ExpectedPhased \subseteq fs
    /\ MergeCheckRan /\ ~(ExpectedPhased \subseteq fs) =>
          /\ ~Invoked("vcf_merge")
          /\ pc = "exited" /\ failed_at = "merge_check" /\ exit_status = <<1>>

\* two chromosomes retained, one phased file present and one absent at the check
C1_Witness ==
    /\ failed_at = "merge_check"
    /\ Cardinality(ExpectedPhased) = 2
    /\ Cardinality(ExpectedPhased \cap fs) = 1
    /\ PhasedOf(CHOOSE i \in HasVariants : \A j \in HasVariants : i <= j) \in fs

\* C2: a chromosome the partitioner reports with variant count 0 never
\* appears in valid_chroms, in the lists handed to ref_phasing, or in the
\* list of phased files the merge step expects
C2_ZeroCountNeverListed ==
    LET chroms == {res[i][1] : i \in NoVariants}
        targets == {res[i][3] : i \in NoVariants}
        refs == {RefVcfOf[c] : c \in chroms}
        prefixes == {OutPrefixOf[label][c] : c \in chroms}
        phased == {PhasedVcfOf[label][c] : c \in chroms}
    IN  /\ chroms \cap Range(valid_chroms) = {}
        /\ targets \cap Range(target_vcf_list) = {}
        /\ refs \cap Range(ref_vcf_list) = {}
        /\ prefixes \cap Range(out_prefix_list) = {}
        /\ phased \cap Range(phased_vcf_list) = {}
        /\ \A c \in CallsOf("ref_phasing") :
              /\ targets \cap Range(calls[c].args[1]) = {}
              /\ refs \cap Range(calls[c].args[2]) = {}
              /\ prefixes \cap Range(calls[c].args[3]) = {}
        /\ \A c \in CallsOf("vcf_merge") : phased \cap Range(calls[c].args[1]) = {}

\* a run that reached the merge with chr2 retained and chr1 without variants
C2_Witness ==
    /\ Invoked("vcf_merge")
    /\ 1 \in NoVariants
    /\ 2 \in HasVariants
    /\ Len(phased_vcf_list) = 1

\* C3: every chromosome with variants has had vcf_index called on its
\* partition file before ref_phasing is invoked, and ref_phasing receives no
\* target VCF that was not indexed earlier in the run
C3_IndexedBeforePhasing ==
    \A c \in CallsOf("ref_phasing") :
        /\ \A i \in HasVariants :
              \E j \in 1..(c - 1) :
                  calls[j].fn = "vcf_index" /\ calls[j].args = <<<<res[i][3]>>>>
        /\ \A t \in Range(calls[c].args[1]) :
              \E j \in 1..(c - 1) :
                  calls[j].fn = "vcf_index" /\ calls[j].args = <<<<t>>>>

\* ref_phasing was invoked with two target VCFs
C3_Witness ==
    \E c \in CallsOf("ref_phasing") :
        Len(calls[c].args[1]) = 2 /\ Cardinality(HasVariants) = 2

\* C4: if any of the 44 panel files is absent, the run aborts in the check
\* of the arguments, before pileup/ or phasing/ is created
C4_PanelGap ==
    (PanelFiles \ fs) # {} =>
        /\ pc \in {"main", "check_args", "exited"}
        /\ pileup_dir \notin written
        /\ phasing_dir \notin written
        /\ calls = <<>>
        /\ exit_status # <<0>>

\* all is in place but chr13.genotypes.bcf.csi, and the run has aborted
C4_Witness ==
    /\ RequiredInputs \ fs = {PanelCsi(13)}
    /\ label # None
    /\ pc = "exited"
    /\ failed_at = "check_args"
    /\ out_dir \in fs

\* C5: if the label is unset, or the candidate-SNP VCF, the genetic map, the
\* phasing binary or the panel directory does not exist, the run fails before
\* any stage is invoked
C5_FailFast ==
    (\/ pc # "main" /\ label = None
     \/ {snp_vcf_fn, gmap_fn, eagle_fn, panel_dir} \ fs # {}) =>
        /\ calls = <<>>
        /\ pc \in {"main", "check_args", "exited"}
        /\ exit_status # <<0>>

\* the phasing binary is the one thing absent, and the run has aborted
C5_Witness ==
    /\ RequiredInputs \ fs = {eagle_fn}
    /\ label # None
    /\ pc = "exited"
    /\ failed_at = "check_args"

\* C6: the process exits with a non-zero status on every failure, and with
\* status zero only when the pipeline completed and the merged VCF is present
C6_ExitStatus ==
    pc = "exited" =>
        /\ failed_at # None => exit_status # <<0>>
        /\ exit_status = <<0>> =>
              Invoked("vcf_merge") /\ phased_vcf_fn(label) \in fs

C8_NoMergeOfSubset ==
    Invoked("vcf_merge") =>
        \A i \in 1..Len(out_prefix_list) : PhasedVcf(out_prefix_list[i]) \in written

\* the files whose names carry the label of the run
LabelledFiles(l) ==
    {genotype_vcf_fn(l), phased_vcf_fn(l)}
    \cup {PhasedVcf(OutPrefix(l, chrom_list[i])) : i \in Chroms}

\* the files and directories the orchestrator names in a run with label l
NamedFiles(l) ==
    {pileup_dir, pileup_vcf_fn, pileup_script, pileup_log_fn,
     phasing_script, phasing_log_fn} \cup LabelledFiles(l)

LabelledFilesOf == [l \in Labels |-> LabelledFiles(l)]
NamedFilesOf == [l \in Labels |-> NamedFiles(l)]

\* C9: a run never writes a path that a run with another label names in the
\* same output root
C9_NoCollisionAcrossLabels ==
    label # None => \A l2 \in Labels \ {label} : written \cap NamedFilesOf[l2] = {}

\* C9, amended: for labels without a path separator, a run never writes the
\* genotype VCF, a per-chromosome phased VCF or the merged VCF of a run with
\* another label; the pileup directory, its base VCF and the pileup and
\* phasing logs and scripts have the same paths whatever the label
C9_LabelledFilesDisjoint ==
    label \in SimpleLabels =>
        \A l2 \in SimpleLabels \ {label} : written \cap LabelledFilesOf[l2] = {}

\* a complete run with label S_chr1 in the output root of a run with label S
C9_Witness ==
    /\ label = "S_chr1"
    /\ exit_status = <<0>>
    /\ phased_vcf_fn(PrevLabel) \in fs \ written
    /\ {genotype_vcf_fn(label), phased_vcf_fn(label),
        PhasedVcf(OutPrefix(label, "chr1"))} \subseteq written

\* C10: there is exactly one phasing task per chromosome reported with
\* variants and no other, and the merge step requires exactly the phased
\* files of those chromosomes
C10_OneTaskPerRetained ==
    /\ \A c \in CallsOf("ref_phasing") :
          /\ Len(task) = Cardinality(HasVariants)
          /\ Len(calls[c].args[1]) = Cardinality(HasVariants)
          /\ Len(calls[c].args[2]) = Cardinality(HasVariants)
          /\ Len(calls[c].args[3]) = Cardinality(HasVariants)
          /\ Range(calls[c].args[1]) = {res[i][3] : i \in HasVariants}
          /\ Range(calls[c].args[2]) = {RefVcfOf[res[i][1]] : i \in HasVariants}
          /\ Range(calls[c].args[3]) =
                {OutPrefixOf[label][res[i][1]] : i \in HasVariants}
    /\ MergeCheckRan =>
          /\ Len(phased_vcf_list) = Cardinality(HasVariants)
          /\ Range(phased_vcf_list) = ExpectedPhased
    /\ \A c \in CallsOf("vcf_merge") : calls[c].args[1] = phased_vcf_list

\* variants on chr1 and chr5 only: two tasks, two expected phased files
C10_Witness ==
    /\ HasVariants = {1, 5}
    /\ Len(task) = 2
    /\ phased_vcf_list = <<PhasedVcf(OutPrefix(label, "chr1")),
                           PhasedVcf(OutPrefix(label, "chr5"))>>
    /\ Invoked("vcf_merge")

\* C11: vcf_add_genotype is invoked only if pileup/cellSNP.base.vcf.gz exists
\* after pileup returned; if it is absent the run aborts at the check and no
\* later stage is invoked
C11_GenotypeNeedsPileupVcf ==
    /\ Invoked("vcf_add_genotype") => pileup_vcf_fn \in fs
    /\ pc \notin {"main", "check_args", "pileup", "pileup_check", "exited"} =>
          pileup_vcf_fn \in fs
    /\ Invoked("pileup") /\ pc # "pileup_check" /\ pileup_vcf_fn \notin fs =>
          /\ pc = "exited"
          /\ failed_at \in {"pileup", "pileup_check"}
          /\ exit_status = <<1>>
          /\ \A i \in 1..Len(calls) : calls[i].fn = "pileup"

\* pileup returned without its base VCF and the run aborted at the check
C11_Witness ==
    /\ failed_at = "pileup_check"
    /\ pileup_vcf_fn \notin fs
    /\ pileup_script \in written
    /\ Len(calls) = 1

\* a path is directly inside directory d under one of the names the
\* orchestrator gives to logs and scripts
LogNames == {"run_pileup.sh", "pileup.log", "run_phasing.sh", "phasing.log"}
LogsIn == [d \in {pileup_dir, phasing_dir} |-> {Join(d, n) : n \in LogNames}]
InDir(path, d) == path \in LogsIn[d]

\* the log and script arguments with the paths directly in the output root
PileupArgsInRoot ==
    <<<<Join(out_dir, "pileup")>>, <<Join(out_dir, "run_pileup.sh")>>,
      <<Join(out_dir, "pileup.log")>>>>
PhasingLogsInRoot ==
    <<Join(out_dir, "run_phasing.sh"), Join(out_dir, "phasing.log")>>

\* C12: the pileup log and script are written inside <outdir>/pileup/, and
\* the phasing log and script inside <outdir>/phasing/
C12_LogsInStageDirs ==
    /\ \A c \in CallsOf("pileup") :
          InDir(calls[c].args[2][1], pileup_dir) /\ InDir(calls[c].args[3][1], pileup_dir)
    /\ \A c \in CallsOf("ref_phasing") :
          InDir(calls[c].args[4][1], phasing_dir) /\ InDir(calls[c].args[4][2], phasing_dir)

\* C12, amended: the pileup log and script and the phasing log and script are
\* written directly in the output root, as <outdir>/pileup.log,
\* <outdir>/run_pileup.sh, <outdir>/phasing.log and <outdir>/run_phasing.sh,
\* not inside pileup/ or phasing/
C12_LogsInOutputRoot ==
    /\ \A c \in CallsOf("pileup") :
          /\ calls[c].args = PileupArgsInRoot
          /\ ~InDir(calls[c].args[2][1], pileup_dir)
          /\ ~InDir(calls[c].args[3][1], pileup_dir)
    /\ \A c \in CallsOf("ref_phasing") :
          /\ calls[c].args[4] = PhasingLogsInRoot
          /\ ~InDir(calls[c].args[4][1], phasing_dir)
          /\ ~InDir(calls[c].args[4][2], phasing_dir)

\* both pileup and ref_phasing have been given their log and script
C12_Witness ==
    /\ Invoked("pileup")
    /\ Invoked("ref_phasing")
    /\ {pileup_script, pileup_log_fn} \subseteq written

\* the stages in the order of the pipeline; vcf_index belongs to the
\* partitioning stage and is called once per retained chromosome
StageOrder ==
    <<"pileup", "vcf_add_genotype", "vcf_split_chrom", "vcf_index",
      "ref_phasing", "vcf_merge">>
Rank(f) == CHOOSE r \in 1..Len(StageOrder) : StageOrder[r] = f
LastCall == calls[Len(calls)].fn

\* C13: the stages are invoked in the order preflight, pileup, genotype
\* annotation, partitioning with indexing, phasing, merge; none is invoked
\* before the earlier ones returned, none twice, none after a failure
C13_StageOrder ==
    /\ calls # <<>> =>
          /\ pc \notin {"main", "check_args", "pileup"}
          /\ calls[1].fn = "pileup"
    /\ \A j \in 2..Len(calls) :
          LET a == calls[j - 1]
              b == calls[j]
          IN  \/ Rank(b.fn) = Rank(a.fn) + 1
              \/ a.fn = "vcf_index" /\ b.fn = "vcf_index"
              \/ a.fn = "vcf_split_chrom" /\ b.fn = "ref_phasing"
    /\ \A i, j \in 1..Len(calls) : i # j => calls[i] # calls[j]
    /\ pc = "phasing" => LastCall = "ref_phasing"
    /\ pc \in {"merge", "merge_check"} => LastCall = "ref_phasing"
    /\ failed_at # None =>
          /\ pc = "exited"
          /\ exit_status = <<1>>
          /\ failed_at \in {"getopt", "check_args"} => calls = <<>>
          /\ failed_at \in Range(StageOrder) => LastCall = failed_at
          /\ failed_at = "pileup_check" => LastCall = "pileup"
          /\ failed_at = "merge_check" => LastCall = "ref_phasing"

\* a complete run with two retained chromosomes
C13_Witness ==
    /\ exit_status = <<0>>
    /\ [i \in 1..Len(calls) |-> calls[i].fn] =
          <<"pileup", "vcf_add_genotype", "vcf_split_chrom", "vcf_index",
            "vcf_index", "ref_phasing", "vcf_merge">>

\* the merge step, its existence check included, has begun
MergeStepBegun ==
    \/ pc = "merge_check"
    \/ MergeCheckRan
    \/ Invoked("vcf_merge")

\* C14: at most ncores phasing invocations run at a time, and the merge
\* existence check and vcf_merge begin only when every phasing invocation of
\* the run has ended
C14_MergeAfterAllPhasing ==
    /\ Cardinality(Running) <= ncores
    /\ Running # {} => pc = "phasing" /\ ~MergeStepBegun
    /\ MergeStepBegun =>
          /\ Len(task) = Len(target_vcf_list)
          /\ \A i \in 1..Len(task) : task[i] = "done"

\* two invocations ran on two workers and the merge was invoked
C14_Witness ==
    /\ Invoked("vcf_merge")
    /\ ncores = MaxCores
    /\ Len(task) = MaxRetained
    /\ \A i \in 1..Len(task) : task[i] = "done"

\* the second invocation has ended while the first is still running
C14_OutOfOrder ==
    /\ pc = "phasing"
    /\ Len(task) = MaxRetained
    /\ task[1] = "running"
    /\ task[Len(task)] = "done"

\* no element of the sequence occurs at two positions
Distinct(s) == \A i, j \in 1..Len(s) : i # j => s[i] # s[j]

\* <phasing_dir>/<label>_<chrom>.phased and the names built on it, tabulated
PrefixNamed ==
    [l \in Labels |-> [c \in Range(chrom_list) |->
        Join(phasing_dir, l \o "_" \o c \o ".phased")]]
PhasedNamed ==
    [l \in Labels |-> [c \in Range(chrom_list) |->
        Join(phasing_dir, l \o "_" \o c \o ".phased.vcf.gz")]]
RefNamed ==
    [c \in Range(chrom_list) |-> Join(panel_dir, c \o ".genotypes.bcf")]

\* C15: within one run no two phasing invocations are given the same output
\* prefix or the same target VCF; each prefix is
\* <phasing_dir>/<label>_<chrom>.phased, so no two invocations write the same
\* phased file
C15_DistinctPrefixes ==
    /\ \A c \in CallsOf("ref_phasing") :
          /\ Distinct(calls[c].args[1])
          /\ Distinct(calls[c].args[3])
          /\ Len(calls[c].args[3]) = Len(valid_chroms)
          /\ \A i \in 1..Len(valid_chroms) :
                calls[c].args[3][i] = PrefixNamed[label][valid_chroms[i]]
    /\ \A i, j \in Running :
          i # j => PhasedVcf(out_prefix_list[i]) # PhasedVcf(out_prefix_list[j])

\* two invocations of one run are running at the same time
C15_Witness ==
    /\ pc = "phasing"
    /\ Cardinality(Running) = MaxCores
    /\ Cardinality(CallsOf("ref_phasing")) = 1

\* the index in res of the entry of chromosome chrom
ResIndex(chrom) == CHOOSE m \in 1..Len(res) : res[m][1] = chrom

\* C16: the lists handed to ref_phasing and vcf_merge have the same length
\* and are aligned: position i of each belongs to valid_chroms[i], and
\* valid_chroms keeps the order in which vcf_split_chrom returned the
\* chromosomes
C16_ListsAligned ==
    /\ Len(target_vcf_list) = Len(valid_chroms)
    /\ \A i \in 1..Len(valid_chroms) :
          /\ \E m \in 1..Len(res) : res[m][1] = valid_chroms[i]
          /\ target_vcf_list[i] = res[ResIndex(valid_chroms[i])][3]
          /\ \A j \in 1..(i - 1) :
                ResIndex(valid_chroms[j]) < ResIndex(valid_chroms[i])
    /\ \A c \in CallsOf("ref_phasing") :
          LET a == calls[c].args
          IN  /\ a[1] = target_vcf_list
              /\ Len(a[1]) = Len(valid_chroms)
              /\ Len(a[2]) = Len(valid_chroms)
              /\ Len(a[3]) = Len(valid_chroms)
              /\ \A i \in 1..Len(valid_chroms) :
                    /\ a[2][i] = RefNamed[valid_chroms[i]]
                    /\ a[3][i] = PrefixNamed[label][valid_chroms[i]]
    /\ MergeCheckRan =>
          /\ Len(phased_vcf_list) = Len(valid_chroms)
          /\ \A i \in 1..Len(valid_chroms) :
                phased_vcf_list[i] = PhasedNamed[label][valid_chroms[i]]
    /\ \A c \in CallsOf("vcf_merge") : calls[c].args[1] = phased_vcf_list

\* the merge was handed the phased files of two retained chromosomes
C16_Witness ==
    /\ Invoked("vcf_merge")
    /\ Len(valid_chroms) = MaxRetained
    /\ Len(phased_vcf_list) = MaxRetained

\* C17: after pileup, genotype annotation, partitioning, phasing and merge
\* the expected output of the stage is asserted to exist before the next
\* step starts: no later stage is invoked, and the run does not end with
\* status 0, while the output of an earlier stage is absent
C17_OutputAssertedAfterEachStage ==
    /\ Invoked("vcf_add_genotype") => pileup_vcf_fn \in fs
    /\ Invoked("vcf_split_chrom") => genotype_vcf_fn(label) \in fs
    /\ Invoked("ref_phasing") =>
          \A i \in 1..Len(target_vcf_list) : target_vcf_list[i] \in fs
    /\ Invoked("vcf_merge") =>
          \A i \in 1..Len(phased_vcf_list) : phased_vcf_list[i] \in fs
    /\ pc = "returned" \/ exit_status = <<0>> => phased_vcf_fn(label) \in fs

\* vcf_split_chrom has returned and reported no variants on any chromosome
AllCountsZero == Len(res) = NumChroms /\ HasVariants = {}

\* C18: when every chromosome is reported with variant count 0 the
\* orchestrator raises no error of its own: ref_phasing is invoked with three
\* empty lists, the merge existence check passes, and vcf_merge is invoked
\* with an empty input list for <label>.phased.vcf.gz
C18_EmptyRunReachesMerge ==
    AllCountsZero =>
        /\ ~Invoked("vcf_index")
        /\ failed_at \in {None, "ref_phasing", "vcf_merge"}
        /\ pc # "split_loop" => Invoked("ref_phasing")
        /\ \A c \in CallsOf("ref_phasing") :
              /\ calls[c].args[1] = <<>>
              /\ calls[c].args[2] = <<>>
              /\ calls[c].args[3] = <<>>
        /\ MergeCheckRan => MergeCheckPassed /\ phased_vcf_list = <<>>
        /\ pc \in {"returned", "exited"} /\ failed_at # "ref_phasing" =>
              Invoked("vcf_merge")
        /\ \A c \in CallsOf("vcf_merge") :
              calls[c].args = <<<<>>, <<Join(out_dir, label \o ".phased.vcf.gz")>>>>

\* vcf_merge was invoked in a run without any retained chromosome
C18_Witness ==
    /\ AllCountsZero
    /\ Invoked("vcf_merge")
    /\ pc = "returned"

-----------------------------------------------------------------------------
(* xcltk.py: the command dispatcher, lines 44-59 *)

\* the longest command line drawn, program name not counted
MaxCliArgs == 2

\* the words a command line is drawn from
CliCommands == {"allelefc", "baf", "fixref", "rpc", "basefc", "convert"}
CliWords ==
    CliCommands \cup {"-h", "--help", "-V", "--version", "BAF", "bafx", "--label", ""}

RECURSIVE WordSeqs(_)
\* the sequences of at most n words
WordSeqs(n) ==
    IF n = 0 THEN {<<>>}
    ELSE LET shorter == WordSeqs(n - 1)
         IN  shorter \cup {Append(w, c) : w \in shorter, c \in CliWords}

\* sys.argv[i], counted from 0 as the source does
SysArgv(i) == argv[i + 1]

InitCli ==
    /\ pc = "cli_main"
    /\ argv \in {<<"xcltk">> \o w : w \in WordSeqs(MaxCliArgs)}
    /\ label = None
    /\ sam_fn = None
    /\ sam_list_fn = None
    /\ ncores = N_CORES
    /\ fs = {}
    /\ written = {}
    /\ res = <<>>
    /\ k = 1
    /\ valid_chroms = <<>>
    /\ target_vcf_list = <<>>
    /\ ref_vcf_list = <<>>
    /\ out_prefix_list = <<>>
    /\ phased_vcf_list = <<>>
    /\ task = <<>>
    /\ calls = <<>>
    /\ failed_at = None
    /\ exit_status = <<>>

\* as Handler, comparing without regard to case
Handler_IgnoreCase(command) ==
    IF command = "allelefc" THEN "baf_allelefc"
    ELSE IF command \in {"baf", "BAF"} THEN "baf_baf"
    ELSE IF command = "fixref" THEN "baf_fixref"
    ELSE IF command = "rpc" THEN "baf_rpc"
    ELSE IF command = "basefc" THEN "rdr_basefc"
    ELSE IF command = "convert" THEN "tools_convert"
    ELSE None

\* the if / elif chain of lines 51-56: the handler of a command, None if none
Handler(command) ==
    IF command = "allelefc" THEN "baf_allelefc"
    ELSE IF command = "baf" THEN "baf_baf"
    ELSE IF command = "fixref" THEN "baf_fixref"
    ELSE IF command = "rpc" THEN "baf_rpc"
    ELSE IF command = "basefc" THEN "rdr_basefc"
    ELSE IF command = "convert" THEN "tools_convert"
    ELSE None

\* lines 57-59: the status of a command that has no handler
NoHandlerStatus(command) ==
    IF command \in {"-h", "--help"} THEN 3
    ELSE IF command \in {"-V", "--version"} THEN 3
    ELSE 5

CliMain ==
    /\ pc = "cli_main"
    /\ UNCH_args
    /\ UNCH_lists
    /\ UNCHANGED <<fs, written>>
    /\ IF Len(argv) < 2
       THEN \* argc < 2: __usage(); sys.exit(1)
            SysExit(1) /\ UNCHANGED calls
       ELSE LET command == SysArgv(1)
            IN  IF Handler(command) # None
                THEN /\ Call(Handler(command), <<argv>>)
                     /\ pc' = "cli_handler"
                     /\ UNCHANGED <<failed_at, exit_status>>
                ELSE SysExit(NoHandlerStatus(command)) /\ UNCHANGED calls

\* the handler returns and main returns after it, or the handler raises
CliHandlerReturn ==
    /\ pc = "cli_handler"
    /\ UNCH_args
    /\ UNCH_lists
    /\ UNCHANGED <<fs, written, calls>>
    /\ \/ SysExit(0)
       \/ Raise(calls[Len(calls)].fn)

NextCli ==
    \/ CliMain
    \/ CliHandlerReturn

SpecCli == InitCli /\ [][NextCli]_vars

\* C19: the dispatcher invokes at most one handler, the one whose command is
\* exactly sys.argv[1]; without a command it exits with status 1, with -h,
\* --help, -V or --version with status 3, with any other word with status 5,
\* and in these three cases no handler is invoked
C19_Dispatch ==
    /\ Len(calls) <= 1
    /\ calls # <<>> =>
          /\ Len(argv) >= 2
          /\ calls[1].args = <<argv>>
          /\ \/ SysArgv(1) = "allelefc" /\ calls[1].fn = "baf_allelefc"
             \/ SysArgv(1) = "baf" /\ calls[1].fn = "baf_baf"
             \/ SysArgv(1) = "fixref" /\ calls[1].fn = "baf_fixref"
             \/ SysArgv(1) = "rpc" /\ calls[1].fn = "baf_rpc"
             \/ SysArgv(1) = "basefc" /\ calls[1].fn = "rdr_basefc"
             \/ SysArgv(1) = "convert" /\ calls[1].fn = "tools_convert"
    /\ pc # "cli_main" =>
          /\ Len(argv) < 2 => calls = <<>> /\ exit_status = <<1>>
          /\ Len(argv) >= 2 =>
                /\ SysArgv(1) \in {"-h", "--help", "-V", "--version"} =>
                      calls = <<>> /\ exit_status = <<3>>
                /\ SysArgv(1) \notin
                      CliCommands \cup {"-h", "--help", "-V", "--version"} =>
                      calls = <<>> /\ exit_status = <<5>>
                /\ SysArgv(1) \in CliCommands => Len(calls) = 1

\* a command in another case was rejected with status 5
C19_Witness ==
    /\ pc = "exited"
    /\ Len(argv) >= 2
    /\ SysArgv(1) = "BAF"
    /\ calls = <<>>
    /\ exit_status = <<5>>

\* the handler of baf was invoked and has returned
C19_HandlerRan ==
    /\ pc = "exited"
    /\ Len(calls) = 1
    /\ calls[1].fn = "baf_baf"
    /\ exit_status = <<0>>

====
